---- MODULE Spec2Model ----
(***************************************************************************)
(* A model of the telemetry launcher of common-fate/observability:         *)
(* launcher.ConfigureOpentelemetry (configuration loading, option          *)
(* application, resource building, validation, pipeline setup) and         *)
(* Launcher.Shutdown / ShutdownContext, with pipelines.NewTracePipeline    *)
(* and pipelines.configurePropagators.                                     *)
(***************************************************************************)
EXTENDS Integers, Sequences, FiniteSets, TLC

VARIABLES
    pc,             \* position of the calling goroutine in the program
    frame,          \* newConfig's arguments and locals while it runs
    c,              \* the Config (launcher.go:26-44)
    otelGlobal,     \* the process-wide registrations of package otel
    tp,             \* NewTracePipeline's locals
    shutdownFuncs,  \* Launcher.shutdownFuncs (launcher.go:212)
    sd              \* ShutdownContext's loop state and the teardown history

vars == <<pc, frame, c, otelGlobal, tp, shutdownFuncs, sd>>

----------------------------------------------------------------------------
(* Bounds of the model.                                                    *)

\* The longest option list a caller passes to ConfigureOpentelemetry.
MaxOpts == 2
\* The longest propagator list drawn for configurePropagators.
MaxProps == 2
\* How many times the caller invokes Shutdown / ShutdownContext.
MaxShutdowns == 2

----------------------------------------------------------------------------
(* String-keyed maps.  A Go map[string]string over a key set K is a        *)
(* function K -> value, with Absent for a key the map does not hold.       *)

Absent == "<absent>"

EmptyMap(K) == [k \in K |-> Absent]

RECURSIVE FromPairs(_, _)
\* Insert the <<key, value>> pairs in order: a later pair replaces an earlier
\* one with the same key.
FromPairs(m, pairs) ==
    IF pairs = <<>> THEN m
    ELSE FromPairs([m EXCEPT ![Head(pairs)[1]] = Head(pairs)[2]], Tail(pairs))

\* for k, v := range src { dst[k] = v }
MergeInto(dst, src) ==
    [k \in DOMAIN dst |-> IF src[k] # Absent THEN src[k] ELSE dst[k]]

RECURSIVE Perms(_)
\* Every order in which a range over a map may visit the keys S.
Perms(S) ==
    IF S = {} THEN {<<>>}
    ELSE UNION {{<<k>> \o p : p \in Perms(S \ {k})} : k \in S}

----------------------------------------------------------------------------
(* Resource attributes.                                                    *)

AttributeHostName == "host.name"
AttributeServiceName == "service.name"
AttributeServiceVersion == "service.version"
AttributeTelemetrySDKName == "telemetry.sdk.name"
AttributeTelemetrySDKLanguage == "telemetry.sdk.language"
AttributeTelemetrySDKVersion == "telemetry.sdk.version"

\* The attribute keys of the model, in the key order of an attribute set.
SortedAttrKeys ==
    << AttributeHostName, AttributeServiceName, AttributeServiceVersion,
       AttributeTelemetrySDKLanguage, AttributeTelemetrySDKName,
       AttributeTelemetrySDKVersion >>

AttrKeys == {SortedAttrKeys[i] : i \in DOMAIN SortedAttrKeys}

\* The package-level version string newResource reports.
version == "version"

\* (*resource.Resource).Attributes(): the set's pairs, sorted by key, one per key.
Attributes(r) ==
    LET present == SelectSeq(SortedAttrKeys, LAMBDA k : r.attrs[k] # Absent)
    IN  [i \in DOMAIN present |-> <<present[i], r.attrs[present[i]]>>]

NilResource == [isNil |-> TRUE, attrs |-> EmptyMap(AttrKeys)]

\* The number of entries of an attribute list that carry the key k.
CountKey(attrs, k) == Cardinality({i \in DOMAIN attrs : attrs[i][1] = k})

----------------------------------------------------------------------------
(* Headers.  A nil header map and an empty one are different values.       *)

HeaderKeys == {"k1", "k2"}

NilHeaders == [isNil |-> TRUE, m |-> EmptyMap(HeaderKeys)]
EmptyHeaders == [isNil |-> FALSE, m |-> EmptyMap(HeaderKeys)]

----------------------------------------------------------------------------
(* The environment: the variables named by Config's struct tags            *)
(* (launcher.go:27-37) and OTEL_RESOURCE_ATTRIBUTES, read by               *)
(* resource.Environment().  A string variable is Absent when unset; a list *)
(* or a map is given as its parsed elements, empty when unset.             *)

DefaultSpanExporterEndpoint == "ingest.commonfate.io:443"
DefaultMetricExporterEndpoint == "ingest.commonfate.io:443"

EnvUnset ==
    [ OTEL_EXPORTER_OTLP_SPAN_ENDPOINT   |-> Absent,
      OTEL_EXPORTER_OTLP_SPAN_INSECURE   |-> Absent,
      OTEL_EXPORTER_OTLP_HEADERS         |-> <<>>,
      OTEL_EXPORTER_OTLP_METRIC_ENDPOINT |-> Absent,
      OTEL_EXPORTER_OTLP_METRIC_INSECURE |-> Absent,
      OTEL_METRICS_ENABLED               |-> Absent,
      OTEL_LOG_LEVEL                     |-> Absent,
      OTEL_PROPAGATORS                   |-> <<>>,
      OTEL_EXPORTER_OTLP_METRIC_PERIOD   |-> Absent,
      OTEL_RESOURCE_ATTRIBUTES           |-> <<>> ]

EnvAllSet ==
    [ OTEL_EXPORTER_OTLP_SPAN_ENDPOINT   |-> "env-span:4317",
      OTEL_EXPORTER_OTLP_SPAN_INSECURE   |-> "true",
      OTEL_EXPORTER_OTLP_HEADERS         |-> << <<"k1", "env">> >>,
      OTEL_EXPORTER_OTLP_METRIC_ENDPOINT |-> "env-metric:4317",
      OTEL_EXPORTER_OTLP_METRIC_INSECURE |-> "1",
      OTEL_METRICS_ENABLED               |-> "false",
      OTEL_LOG_LEVEL                     |-> "debug",
      OTEL_PROPAGATORS                   |-> <<"baggage">>,
      OTEL_EXPORTER_OTLP_METRIC_PERIOD   |-> "10s",
      OTEL_RESOURCE_ATTRIBUTES           |-> <<>> ]

EnvTraceOff == [EnvUnset EXCEPT !.OTEL_EXPORTER_OTLP_SPAN_ENDPOINT = ""]

EnvMalformed == [EnvUnset EXCEPT !.OTEL_METRICS_ENABLED = "maybe"]

\* The values OTEL_RESOURCE_ATTRIBUTES takes in the model.
EnvResourceAttributes ==
    { <<>>,
      << <<AttributeServiceName, "envsvc">> >>,
      << <<AttributeHostName, "envhost">> >>,
      << <<AttributeServiceName, "">>, <<AttributeHostName, "">> >> }

Environments ==
    { [e EXCEPT !.OTEL_RESOURCE_ATTRIBUTES = r] :
        e \in {EnvUnset, EnvAllSet, EnvTraceOff, EnvMalformed},
        r \in EnvResourceAttributes }

\* strconv.ParseBool, which envconfig applies to a bool field.
ParseBoolOk(s) ==
    s \in {"1", "t", "T", "TRUE", "true", "True", "0", "f", "F", "FALSE", "false", "False"}
ParseBool(s) == s \in {"1", "t", "T", "TRUE", "true", "True"}

\* A tagged field's source text: the variable's value, or the tag's default.
Lookup(v, default) == IF v = Absent THEN default ELSE v

----------------------------------------------------------------------------
(* Config and newConfig (launcher.go:26-44, 189-208).  Durations are whole  *)
(* seconds.                                                                *)

\* var c Config
ZeroConfig ==
    [ SpanExporterEndpoint           |-> "",
      SpanExporterEndpointInsecure   |-> FALSE,
      ServiceName                    |-> "",
      ServiceVersion                 |-> "",
      Headers                        |-> NilHeaders,
      MetricExporterEndpoint         |-> "",
      MetricExporterEndpointInsecure |-> FALSE,
      MetricsEnabled                 |-> FALSE,
      LogLevel                       |-> "",
      Propagators                    |-> <<>>,
      MetricReportingPeriod          |-> "",
      BatchTimeout                   |-> 0,
      resourceAttributes             |-> EmptyMap(AttrKeys),
      Resource                       |-> NilResource,
      errorHandler                   |-> "nil",
      context                        |-> "nil" ]

\* Whether a tagged bool field's variable decodes.
SpanInsecureOk(env) == ParseBoolOk(Lookup(env.OTEL_EXPORTER_OTLP_SPAN_INSECURE, "false"))
MetricInsecureOk(env) == ParseBoolOk(Lookup(env.OTEL_EXPORTER_OTLP_METRIC_INSECURE, "false"))
MetricsEnabledOk(env) == ParseBoolOk(Lookup(env.OTEL_METRICS_ENABLED, "true"))

\* envError != nil
EnvError(env) == ~(SpanInsecureOk(env) /\ MetricInsecureOk(env) /\ MetricsEnabledOk(env))

\* envconfig.Process(context.Background(), &c): the tagged fields are decoded
\* in declaration order; decoding stops at the first error and leaves the
\* fields it did not reach at their zero values.
EnvProcess(env) ==
    LET ok2 == SpanInsecureOk(env)                \* decoding got past field 2
        ok5 == ok2 /\ MetricInsecureOk(env)       \* ... past MetricExporterEndpointInsecure
        ok6 == ok5 /\ MetricsEnabledOk(env)       \* ... past MetricsEnabled
    IN  [ ZeroConfig EXCEPT
            !.SpanExporterEndpoint =
                Lookup(env.OTEL_EXPORTER_OTLP_SPAN_ENDPOINT, DefaultSpanExporterEndpoint),
            !.SpanExporterEndpointInsecure =
                ok2 /\ ParseBool(Lookup(env.OTEL_EXPORTER_OTLP_SPAN_INSECURE, "false")),
            !.Headers =
                IF ok2 /\ env.OTEL_EXPORTER_OTLP_HEADERS # <<>>
                THEN [isNil |-> FALSE,
                      m |-> FromPairs(EmptyMap(HeaderKeys), env.OTEL_EXPORTER_OTLP_HEADERS)]
                ELSE NilHeaders,
            !.MetricExporterEndpoint =
                IF ok2
                THEN Lookup(env.OTEL_EXPORTER_OTLP_METRIC_ENDPOINT, DefaultMetricExporterEndpoint)
                ELSE "",
            !.MetricExporterEndpointInsecure =
                ok5 /\ ParseBool(Lookup(env.OTEL_EXPORTER_OTLP_METRIC_INSECURE, "false")),
            !.MetricsEnabled =
                ok6 /\ ParseBool(Lookup(env.OTEL_METRICS_ENABLED, "true")),
            !.LogLevel =
                IF ok6 THEN Lookup(env.OTEL_LOG_LEVEL, "info") ELSE "",
            !.Propagators =
                IF ok6
                THEN (IF env.OTEL_PROPAGATORS = <<>> THEN <<"b3">> ELSE env.OTEL_PROPAGATORS)
                ELSE <<>>,
            !.MetricReportingPeriod =
                IF ok6 THEN Lookup(env.OTEL_EXPORTER_OTLP_METRIC_PERIOD, "30s") ELSE "" ]

\* c.BatchTimeout = 5 * time.Second
DefaultBatchTimeout == 5

\* launcher.go:192-195: the defaults newConfig sets after the environment.
StaticDefaults(cfg) ==
    [ cfg EXCEPT
        !.BatchTimeout = DefaultBatchTimeout,
        !.context      = "background",
        !.errorHandler = "defaultHandler" ]

\* fmt.Sprint of a time.Duration of d whole seconds, d below one hour.
DurationString(d) ==
    IF d < 60 THEN ToString(d) \o "s"
    ELSE ToString(d \div 60) \o "m" \o ToString(d % 60) \o "s"

----------------------------------------------------------------------------
(* Options (launcher.go:65-179).  An option is a record: its constructor's *)
(* name and its argument, in the field of the argument's type.             *)

Opt(name, s, b, d, l, hdr, attrs) ==
    [name |-> name, s |-> s, b |-> b, d |-> d, l |-> l, hdr |-> hdr, attrs |-> attrs]

StrOpt(name, s) == Opt(name, s, FALSE, 0, <<>>, EmptyMap(HeaderKeys), EmptyMap(AttrKeys))
BoolOpt(name, b) == Opt(name, "", b, 0, <<>>, EmptyMap(HeaderKeys), EmptyMap(AttrKeys))
DurOpt(name, d) == Opt(name, "", FALSE, d, <<>>, EmptyMap(HeaderKeys), EmptyMap(AttrKeys))
ListOpt(name, l) == Opt(name, "", FALSE, 0, l, EmptyMap(HeaderKeys), EmptyMap(AttrKeys))
HdrOpt(name, pairs) ==
    Opt(name, "", FALSE, 0, <<>>, FromPairs(EmptyMap(HeaderKeys), pairs), EmptyMap(AttrKeys))
AttrOpt(name, pairs) ==
    Opt(name, "", FALSE, 0, <<>>, EmptyMap(HeaderKeys), FromPairs(EmptyMap(AttrKeys), pairs))

\* A WithHeaders that keeps the value a key already has.
WithHeaders_KeepExisting(headers, cfg) ==
    [cfg EXCEPT !.Headers = [isNil |-> FALSE, m |-> MergeInto(headers, cfg.Headers.m)]]

\* WithHeaders (launcher.go:94-103): the headers are merged into c.Headers.
WithHeaders(headers, cfg) ==
    [cfg EXCEPT !.Headers = [isNil |-> FALSE, m |-> MergeInto(cfg.Headers.m, headers)]]

\* opt(&c) for each With... constructor.
applyOption(o, cfg) ==
    CASE o.name = "WithMetricExporterEndpoint" -> [cfg EXCEPT !.MetricExporterEndpoint = o.s]
      [] o.name = "WithSpanExporterEndpoint"   -> [cfg EXCEPT !.SpanExporterEndpoint = o.s]
      [] o.name = "WithServiceName"            -> [cfg EXCEPT !.ServiceName = o.s]
      [] o.name = "WithServiceVersion"         -> [cfg EXCEPT !.ServiceVersion = o.s]
      [] o.name = "WithHeaders"                -> WithHeaders(o.hdr, cfg)
      [] o.name = "WithLogLevel"               -> [cfg EXCEPT !.LogLevel = o.s]
      [] o.name = "WithSpanExporterInsecure"   -> [cfg EXCEPT !.SpanExporterEndpointInsecure = o.b]
      [] o.name = "WithMetricExporterInsecure" -> [cfg EXCEPT !.MetricExporterEndpointInsecure = o.b]
      [] o.name = "WithResourceAttributes"     -> [cfg EXCEPT !.resourceAttributes = o.attrs]
      [] o.name = "WithPropagators"            -> [cfg EXCEPT !.Propagators = o.l]
      [] o.name = "WithErrorHandler"           -> [cfg EXCEPT !.errorHandler = o.s]
      [] o.name = "WithMetricReportingPeriod"  -> [cfg EXCEPT !.MetricReportingPeriod = DurationString(o.d)]
      [] o.name = "WithMetricsEnabled"         -> [cfg EXCEPT !.MetricsEnabled = o.b]
      [] o.name = "WithBatchTimeout"           -> [cfg EXCEPT !.BatchTimeout = o.d]
      [] o.name = "WithContext"                -> [cfg EXCEPT !.context = o.s]

\* The options a caller passes in the model.
Options ==
    { StrOpt("WithMetricExporterEndpoint", "opt-metric:4317"),
      StrOpt("WithSpanExporterEndpoint", "opt-span:4317"),
      StrOpt("WithSpanExporterEndpoint", ""),
      StrOpt("WithServiceName", "svc"),
      StrOpt("WithServiceName", ""),
      StrOpt("WithServiceVersion", "1.0"),
      HdrOpt("WithHeaders", << <<"k1", "a">> >>),
      HdrOpt("WithHeaders", << <<"k1", "b">>, <<"k2", "b">> >>),
      StrOpt("WithLogLevel", "warn"),
      BoolOpt("WithSpanExporterInsecure", TRUE),
      BoolOpt("WithMetricExporterInsecure", TRUE),
      AttrOpt("WithResourceAttributes", << <<AttributeHostName, "X">> >>),
      AttrOpt("WithResourceAttributes", << <<AttributeServiceName, "rsvc">> >>),
      AttrOpt("WithResourceAttributes",
              << <<AttributeHostName, "X">>, <<AttributeServiceVersion, "2.0">> >>),
      AttrOpt("WithResourceAttributes",
              << <<AttributeHostName, "">>, <<AttributeServiceName, "">> >>),
      ListOpt("WithPropagators", <<"unknown-key">>),
      ListOpt("WithPropagators", <<"tracecontext", "b3">>),
      StrOpt("WithErrorHandler", "custom"),
      StrOpt("WithErrorHandler", "nil"),
      DurOpt("WithMetricReportingPeriod", 90),
      BoolOpt("WithMetricsEnabled", FALSE),
      BoolOpt("WithMetricsEnabled", TRUE),
      DurOpt("WithBatchTimeout", 1),
      StrOpt("WithContext", "ctx") }

RECURSIVE applyOptions(_, _)
\* for _, opt := range append(defaultOpts, opts...) { opt(&c) }
applyOptions(opts, cfg) ==
    IF opts = <<>> THEN cfg
    ELSE applyOptions(Tail(opts), applyOption(Head(opts), cfg))

----------------------------------------------------------------------------
(* newResource (launcher.go:215-270).                                      *)

\* resource.Environment(): the attribute set of OTEL_RESOURCE_ATTRIBUTES.
Environment(env) ==
    [isNil |-> FALSE, attrs |-> FromPairs(EmptyMap(AttrKeys), env.OTEL_RESOURCE_ATTRIBUTES)]

\* The outcomes of os.Hostname().
Hostnames == {[err |-> FALSE, name |-> "host-1"], [err |-> TRUE, name |-> ""]}

\* The keys a range over the map m visits.
Keys(m) == {k \in DOMAIN m : m[k] # Absent}

\* A hostnameSet that the loop over the caller's attributes does not set.
hostnameSet_EnvOnly(r, resourceAttributes) ==
    \E i \in DOMAIN Attributes(r) :
        Attributes(r)[i][1] = AttributeHostName /\ Len(Attributes(r)[i][2]) > 0

\* hostnameSet at line 248: set by the scan of the environment's resource
\* (lines 219-223) or by a non-empty caller-supplied host name (lines 241-243).
hostnameSet(r, resourceAttributes) ==
    \/ \E i \in DOMAIN Attributes(r) :
          Attributes(r)[i][1] = AttributeHostName /\ Len(Attributes(r)[i][2]) > 0
    \/ \E k \in Keys(resourceAttributes) :
          Len(resourceAttributes[k]) > 0 /\ k = AttributeHostName

RECURSIVE callerAttributes(_, _)
\* Lines 239-246: the caller-supplied attributes with a non-empty value, in
\* the order the range visits them.
callerAttributes(resourceAttributes, order) ==
    IF order = <<>> THEN <<>>
    ELSE (IF Len(resourceAttributes[Head(order)]) > 0
          THEN << <<Head(order), resourceAttributes[Head(order)]>> >>
          ELSE <<>>)
         \o callerAttributes(resourceAttributes, Tail(order))

\* The list `attributes` as it stands at line 256, before the environment's
\* attributes are put in front of it.
builtAttributes(cfg, r, order, hostname) ==
    << <<AttributeTelemetrySDKName, "cfobservability">>,
       <<AttributeTelemetrySDKLanguage, "go">>,
       <<AttributeTelemetrySDKVersion, version>> >>
    \o (IF Len(cfg.ServiceName) > 0
        THEN << <<AttributeServiceName, cfg.ServiceName>> >> ELSE <<>>)
    \o (IF Len(cfg.ServiceVersion) > 0
        THEN << <<AttributeServiceVersion, cfg.ServiceVersion>> >> ELSE <<>>)
    \o callerAttributes(cfg.resourceAttributes, order)
    \o (IF ~hostnameSet(r, cfg.resourceAttributes) /\ ~hostname.err
        THEN << <<AttributeHostName, hostname.name>> >> ELSE <<>>)

\* Lines 257-269: resource.New(WithAttributes(append(r.Attributes(), attributes...)))
\* builds an attribute set, in which the last pair of a key is the one kept.
newResource(cfg, env, order, hostname) ==
    LET r == Environment(env)
    IN  [isNil |-> FALSE,
         attrs |-> FromPairs(EmptyMap(AttrKeys),
                             Attributes(r) \o builtAttributes(cfg, r, order, hostname))]

----------------------------------------------------------------------------
(* validateConfiguration (launcher.go:46-63).                              *)

\* A loop that takes any service-name attribute, empty or not, as set.
serviceNameSet_AnyValue(attributes) ==
    \E i \in DOMAIN attributes : attributes[i][1] = AttributeServiceName

\* The loop of lines 49-56: the first attribute with the service-name key
\* decides, and ends the loop.
serviceNameSet(attributes) ==
    LET hits == {i \in DOMAIN attributes : attributes[i][1] = AttributeServiceName}
    IN  /\ hits # {}
        /\ LET first == CHOOSE i \in hits : \A j \in hits : i <= j
           IN  Len(attributes[first][2]) > 0

\* TRUE when validateConfiguration returns an error.
validateConfiguration(cfg) ==
    /\ Len(cfg.ServiceName) = 0
    /\ ~serviceNameSet(Attributes(cfg.Resource))

----------------------------------------------------------------------------
(* pipelines.configurePropagators (trace.go:60-81).                        *)

\* propagatorsMap: the codec of each supported key.
propagatorsMap ==
    [ b3           |-> "b3.New(B3MultipleHeader)",
      baggage      |-> "propagation.Baggage",
      tracecontext |-> "propagation.TraceContext",
      ottrace      |-> "ot.OT" ]

RECURSIVE selectPropagators(_)
\* Lines 67-73: the codecs of the requested keys the table holds, in order.
selectPropagators(keys) ==
    IF keys = <<>> THEN <<>>
    ELSE (IF Head(keys) \in DOMAIN propagatorsMap
          THEN <<propagatorsMap[Head(keys)]>> ELSE <<>>)
         \o selectPropagators(Tail(keys))

\* A configurePropagators that fails on a key the table does not hold.
configurePropagators_FailOnUnknown(keys) ==
    LET props == selectPropagators(keys)
    IN  [err |-> Len(props) = 0 \/ Len(props) # Len(keys), props |-> props]

\* The error result, and the composite propagator handed to
\* otel.SetTextMapPropagator when there is none.
configurePropagators(keys) ==
    LET props == selectPropagators(keys)
    IN  [err |-> Len(props) = 0, props |-> props]

----------------------------------------------------------------------------
(* The parts of ConfigureOpentelemetry and ShutdownContext that decide the  *)
(* control flow.                                                           *)

\* []setupFunc{setupTracing, setupMetrics} (launcher.go:328)
setupFuncs == <<"setupTracing", "setupMetrics">>

\* NewTracePipeline with the provider installed before the propagators.
NewTracePipelineOrder_ProviderFirst ==
    <<"newTraceExporter", "SetTracerProvider", "configurePropagators">>

\* The order of NewTracePipeline's statements (trace.go:19-35).
NewTracePipelineOrder == <<"newTraceExporter", "configurePropagators", "SetTracerProvider">>

\* setupTracing's gate (launcher.go:273): tracing is set up at all.
tracingEnabled(cfg) == cfg.SpanExporterEndpoint # ""

\* A gate on the metric endpoint, as setupTracing's is on the span endpoint.
metricsEnabled_ByEndpoint(cfg) == cfg.MetricExporterEndpoint # ""

\* setupMetrics's gate (launcher.go:290).
metricsEnabled(cfg) == cfg.MetricsEnabled

\* A setup error that is logged only: the `continue` of line 332 is reached.
onSetupError_Continue == "setup"

\* Lines 330-333: Fatalf ends the process, so the `continue` is never reached.
onSetupError == "fatal.setup"

\* Lines 334-336: a non-nil shutdown callback is appended.
appendShutdown(funcs, shutdown) == Append(funcs, shutdown)

\* A loop that walks the callbacks last to first.
rangeShutdown_Reversed(funcs, idx) == funcs[Len(funcs) + 1 - idx]

\* Line 346: the callback the loop of ShutdownContext takes at its idx-th turn.
rangeShutdown(funcs, idx) == funcs[idx]

\* A callback error that is logged only, the loop going on.
onShutdownError_Swallow == "ShutdownContext"

\* Lines 347-349: Fatalf ends the process at the failing callback.
onShutdownError == "fatal.shutdown"

\* A ShutdownContext that empties the list once it has walked it.
funcsAfterShutdown_Cleared(funcs) == <<>>

\* ShutdownContext only reads ls.shutdownFuncs (and has a value receiver):
\* the list the Launcher holds after the call.
funcsAfterShutdown(funcs) == funcs

----------------------------------------------------------------------------
(* The state before ConfigureOpentelemetry is called.                      *)

EmptyFrame == [env |-> EnvUnset, envError |-> FALSE, opts |-> <<>>, attributes |-> <<>>]

Callbacks == {"trace", "metrics"}

NoGlobals ==
    [errorHandler |-> "otel-default", tracerProvider |-> "noop",
     meterProvider |-> "noop", propagator |-> <<>>]

IdleSetup == [i |-> 0, step |-> 0, spanExporter |-> FALSE, err |-> "none"]

IdleShutdown ==
    [idx |-> 0, ctx |-> "none", started |-> 0, returned |-> 0, invoked |-> <<>>,
     calls |-> [f \in Callbacks |-> 0], failed |-> "none"]

Init ==
    /\ pc = "newConfig"
    /\ frame = EmptyFrame
    /\ c = ZeroConfig
    /\ otelGlobal = NoGlobals
    /\ tp = IdleSetup
    /\ shutdownFuncs = <<>>
    /\ sd = IdleShutdown

----------------------------------------------------------------------------
(* newConfig, statement by statement.                                      *)

\* Lines 190-196: the environment is decoded, then the static defaults are set.
NewConfigEnv ==
    /\ pc = "newConfig"
    /\ \E env \in Environments :
          /\ c' = StaticDefaults(EnvProcess(env))
          /\ frame' = [frame EXCEPT !.env = env, !.envError = EnvError(env)]
    /\ pc' = "newConfig.opts"
    /\ UNCHANGED <<otelGlobal, tp, shutdownFuncs, sd>>

\* Lines 198-200: one iteration of the loop over the caller's options.
ApplyOption ==
    /\ pc = "newConfig.opts"
    /\ Len(frame.opts) < MaxOpts
    /\ \E o \in Options :
          /\ c' = applyOption(o, c)
          /\ frame' = [frame EXCEPT !.opts = Append(@, o)]
    /\ UNCHANGED <<pc, otelGlobal, tp, shutdownFuncs, sd>>

\* Line 201: the option list is exhausted; c.Resource = newResource(&c).
NewResource ==
    /\ pc = "newConfig.opts"
    /\ \E order \in Perms(Keys(c.resourceAttributes)), hostname \in Hostnames :
          /\ c' = [c EXCEPT !.Resource = newResource(c, frame.env, order, hostname)]
          /\ frame' = [frame EXCEPT !.attributes =
                          builtAttributes(c, Environment(frame.env), order, hostname)]
    /\ pc' = "newConfig.return"
    /\ UNCHANGED <<otelGlobal, tp, shutdownFuncs, sd>>

\* Lines 203-207: a decoding error is fatal; otherwise c is returned.
NewConfigReturn ==
    /\ pc = "newConfig.return"
    /\ pc' = IF frame.envError THEN "fatal.env" ELSE "ConfigureOpentelemetry"
    /\ frame' = EmptyFrame
    /\ UNCHANGED <<c, otelGlobal, tp, shutdownFuncs, sd>>

----------------------------------------------------------------------------
(* ConfigureOpentelemetry after newConfig (launcher.go:307-339).           *)

\* Lines 311-318: a nil header map is replaced by an empty one, and a
\* configuration that does not validate is fatal.
Validate ==
    /\ pc = "ConfigureOpentelemetry"
    /\ c' = IF c.Headers.isNil THEN [c EXCEPT !.Headers = EmptyHeaders] ELSE c
    /\ pc' = IF validateConfiguration(c') THEN "fatal.config" ELSE "SetErrorHandler"
    /\ UNCHANGED <<frame, otelGlobal, tp, shutdownFuncs, sd>>

\* Lines 320-326: the error handler is installed, the Launcher is made and
\* the loop over the setup functions begins.
SetErrorHandler ==
    /\ pc = "SetErrorHandler"
    /\ otelGlobal' = IF c.errorHandler # "nil"
                     THEN [otelGlobal EXCEPT !.errorHandler = c.errorHandler]
                     ELSE otelGlobal
    /\ tp' = [tp EXCEPT !.i = 1]
    /\ pc' = "setup"
    /\ UNCHANGED <<frame, c, shutdownFuncs, sd>>

\* setupTracing (launcher.go:272-285): with no endpoint it returns (nil, nil)
\* and the loop goes on; otherwise it calls NewTracePipeline.
SetupTracing ==
    /\ pc = "setup"
    /\ tp.i \in DOMAIN setupFuncs
    /\ setupFuncs[tp.i] = "setupTracing"
    /\ IF tracingEnabled(c)
       THEN /\ pc' = "NewTracePipeline"
            /\ tp' = [tp EXCEPT !.step = 1]
       ELSE /\ pc' = "setup"
            /\ tp' = [tp EXCEPT !.i = @ + 1]
    /\ UNCHANGED <<frame, c, otelGlobal, shutdownFuncs, sd>>

\* trace.go:19-22: the span exporter is constructed, or its construction fails
\* and the error goes back to ConfigureOpentelemetry, where it is fatal.
NewTraceExporter ==
    /\ pc = "NewTracePipeline"
    /\ tp.step \in DOMAIN NewTracePipelineOrder
    /\ NewTracePipelineOrder[tp.step] = "newTraceExporter"
    /\ \E err \in BOOLEAN :
          IF err
          THEN /\ pc' = onSetupError
               /\ tp' = [tp EXCEPT !.err = "trace"]
          ELSE /\ pc' = pc
               /\ tp' = [tp EXCEPT !.step = @ + 1, !.spanExporter = TRUE]
    /\ UNCHANGED <<frame, c, otelGlobal, shutdownFuncs, sd>>

\* trace.go:31-33 and 60-81: the propagators are composed and installed, or
\* none is supported and the error goes back to ConfigureOpentelemetry.
ConfigurePropagators ==
    /\ pc = "NewTracePipeline"
    /\ tp.step \in DOMAIN NewTracePipelineOrder
    /\ NewTracePipelineOrder[tp.step] = "configurePropagators"
    /\ LET res == configurePropagators(c.Propagators)
       IN  IF res.err
           THEN /\ pc' = onSetupError
                /\ tp' = [tp EXCEPT !.err = "trace"]
                /\ UNCHANGED otelGlobal
           ELSE /\ pc' = pc
                /\ tp' = [tp EXCEPT !.step = @ + 1]
                /\ otelGlobal' = [otelGlobal EXCEPT !.propagator = res.props]
    /\ UNCHANGED <<frame, c, shutdownFuncs, sd>>

\* trace.go:35: otel.SetTracerProvider(tp)
SetTracerProvider ==
    /\ pc = "NewTracePipeline"
    /\ tp.step \in DOMAIN NewTracePipelineOrder
    /\ NewTracePipelineOrder[tp.step] = "SetTracerProvider"
    /\ otelGlobal' = [otelGlobal EXCEPT !.tracerProvider = "tp"]
    /\ tp' = [tp EXCEPT !.step = @ + 1]
    /\ UNCHANGED <<pc, frame, c, shutdownFuncs, sd>>

\* trace.go:37-40 and launcher.go:334-336: the pipeline returns its shutdown
\* callback, which ConfigureOpentelemetry appends.
NewTracePipelineReturn ==
    /\ pc = "NewTracePipeline"
    /\ tp.step = Len(NewTracePipelineOrder) + 1
    /\ shutdownFuncs' = appendShutdown(shutdownFuncs, "trace")
    /\ tp' = [tp EXCEPT !.i = @ + 1, !.step = 0]
    /\ pc' = "setup"
    /\ UNCHANGED <<frame, c, otelGlobal, sd>>

\* setupMetrics (launcher.go:289-302): disabled metrics return (nil, nil);
\* otherwise it calls NewMetricsPipeline.
SetupMetrics ==
    /\ pc = "setup"
    /\ tp.i \in DOMAIN setupFuncs
    /\ setupFuncs[tp.i] = "setupMetrics"
    /\ IF metricsEnabled(c)
       THEN /\ pc' = "NewMetricsPipeline"
            /\ UNCHANGED tp
       ELSE /\ pc' = "setup"
            /\ tp' = [tp EXCEPT !.i = @ + 1]
    /\ UNCHANGED <<frame, c, otelGlobal, shutdownFuncs, sd>>

\* pipelines.NewMetricsPipeline: the exporter is constructed and the provider
\* installed as the process-wide meter provider, and the shutdown callback is
\* returned and appended; or the construction fails, which is fatal.
NewMetricsPipeline ==
    /\ pc = "NewMetricsPipeline"
    /\ \E err \in BOOLEAN :
          IF err
          THEN /\ pc' = onSetupError
               /\ tp' = [tp EXCEPT !.err = "metrics"]
               /\ UNCHANGED <<otelGlobal, shutdownFuncs>>
          ELSE /\ pc' = "setup"
               /\ tp' = [tp EXCEPT !.i = @ + 1]
               /\ otelGlobal' = [otelGlobal EXCEPT !.meterProvider = "mp"]
               /\ shutdownFuncs' = appendShutdown(shutdownFuncs, "metrics")
    /\ UNCHANGED <<frame, c, sd>>

\* Line 338: the loop is over and the Launcher is returned.
ConfigureReturn ==
    /\ pc = "setup"
    /\ tp.i = Len(setupFuncs) + 1
    /\ pc' = "running"
    /\ UNCHANGED <<frame, c, otelGlobal, tp, shutdownFuncs, sd>>

----------------------------------------------------------------------------
(* Launcher.Shutdown and Launcher.ShutdownContext (launcher.go:341-351).   *)

BeginShutdown(ctx) ==
    /\ pc = "running"
    /\ sd.started < MaxShutdowns
    /\ sd' = [sd EXCEPT !.idx = 1, !.ctx = ctx, !.started = @ + 1, !.invoked = <<>>]
    /\ pc' = "ShutdownContext"
    /\ UNCHANGED <<frame, c, otelGlobal, tp, shutdownFuncs>>

\* ls.Shutdown(): ShutdownContext with the background context.
Shutdown == BeginShutdown("background")

\* ls.ShutdownContext(ctx) with a context of the caller's.
ShutdownContext == BeginShutdown("ctx")

\* One turn of the loop: the callback is invoked with the call's context; its
\* error is fatal, and otherwise the loop goes on.
Invoke(f, err) ==
    /\ sd' = [sd EXCEPT !.invoked = Append(@, f),
                        !.calls[f] = @ + 1,
                        !.failed = IF err THEN f ELSE @,
                        !.idx = @ + 1]
    /\ pc' = IF err THEN onShutdownError ELSE pc
    /\ UNCHANGED <<frame, c, otelGlobal, tp, shutdownFuncs>>

\* The trace pipeline's callback (trace.go:37-40): the error of bsp.Shutdown
\* is dropped, that of spanExporter.Shutdown is returned.
InvokeTraceShutdown ==
    /\ pc = "ShutdownContext"
    /\ sd.idx \in DOMAIN shutdownFuncs
    /\ rangeShutdown(shutdownFuncs, sd.idx) = "trace"
    /\ \E bspErr \in BOOLEAN, exporterErr \in BOOLEAN : Invoke("trace", exporterErr)

\* The metrics pipeline's callback: it returns its exporter's error.
InvokeMetricsShutdown ==
    /\ pc = "ShutdownContext"
    /\ sd.idx \in DOMAIN shutdownFuncs
    /\ rangeShutdown(shutdownFuncs, sd.idx) = "metrics"
    /\ \E exporterErr \in BOOLEAN : Invoke("metrics", exporterErr)

\* Line 351: the loop is over and the call returns.
ShutdownReturn ==
    /\ pc = "ShutdownContext"
    /\ sd.idx = Len(shutdownFuncs) + 1
    /\ sd' = [sd EXCEPT !.idx = 0, !.returned = @ + 1]
    /\ shutdownFuncs' = funcsAfterShutdown(shutdownFuncs)
    /\ pc' = "running"
    /\ UNCHANGED <<frame, c, otelGlobal, tp>>

----------------------------------------------------------------------------

Next ==
    \/ NewConfigEnv
    \/ ApplyOption
    \/ NewResource
    \/ NewConfigReturn
    \/ Validate
    \/ SetErrorHandler
    \/ SetupTracing
    \/ NewTraceExporter
    \/ ConfigurePropagators
    \/ SetTracerProvider
    \/ NewTracePipelineReturn
    \/ SetupMetrics
    \/ NewMetricsPipeline
    \/ ConfigureReturn
    \/ Shutdown
    \/ ShutdownContext
    \/ InvokeTraceShutdown
    \/ InvokeMetricsShutdown
    \/ ShutdownReturn

Spec == Init /\ [][Next]_vars

----------------------------------------------------------------------------
(* NewTracePipeline on every propagator list: the state on entry to        *)
(* NewTracePipeline of ConfigureOpentelemetry(WithServiceName("svc"),      *)
(* WithPropagators(l)) in an empty environment.                            *)

PropagatorKeys == {"b3", "baggage", "tracecontext", "ottrace"}

PropagatorLists ==
    UNION {[1..n -> PropagatorKeys \cup {"unknown-key"}] : n \in 0..MaxProps}

ConfigWithPropagators(l) ==
    LET cfg == applyOptions(<<StrOpt("WithServiceName", "svc"), ListOpt("WithPropagators", l)>>,
                            StaticDefaults(EnvProcess(EnvUnset)))
    IN  [cfg EXCEPT !.Headers = EmptyHeaders,
                    !.Resource = newResource(cfg, EnvUnset, <<>>,
                                             [err |-> FALSE, name |-> "host-1"])]

InitPropagators ==
    /\ pc = "NewTracePipeline"
    /\ frame = EmptyFrame
    /\ c \in {ConfigWithPropagators(l) : l \in PropagatorLists}
    /\ otelGlobal = [NoGlobals EXCEPT !.errorHandler = "defaultHandler"]
    /\ tp = [IdleSetup EXCEPT !.i = 1, !.step = 1]
    /\ shutdownFuncs = <<>>
    /\ sd = IdleShutdown

NextPropagators ==
    \/ NewTraceExporter
    \/ ConfigurePropagators
    \/ SetTracerProvider
    \/ NewTracePipelineReturn

SpecPropagators == InitPropagators /\ [][NextPropagators]_vars

----------------------------------------------------------------------------
(* The claims.                                                             *)

\* The positions at which ConfigureOpentelemetry has returned a Launcher.
Launched == {"running", "ShutdownContext", "fatal.shutdown"}

\* The positions from which validateConfiguration has not yet been passed.
BeforeValidation ==
    {"newConfig", "newConfig.opts", "newConfig.return", "fatal.env", "ConfigureOpentelemetry"}

IsPrefix(a, b) == Len(a) <= Len(b) /\ a = SubSeq(b, 1, Len(a))

Registered(f) == \E i \in DOMAIN shutdownFuncs : shutdownFuncs[i] = f

\* C1: with the trace and the metrics pipeline both enabled and set up, the
\* Launcher holds the trace callback before the metrics callback, and every
\* shutdown call invokes them in that order: what a call has invoked so far is
\* a prefix of <<trace, metrics>>.
C1_ShutdownInRegistrationOrder ==
    (pc \in Launched /\ c.SpanExporterEndpoint # "" /\ c.MetricsEnabled)
        => /\ shutdownFuncs = <<"trace", "metrics">>
           /\ IsPrefix(sd.invoked, <<"trace", "metrics">>)

C1_Witness ==
    /\ pc = "running"
    /\ sd.returned >= 1
    /\ sd.invoked = <<"trace", "metrics">>

\* C2: once ConfigureOpentelemetry has returned, there is one callback per
\* enabled pipeline: the trace callback is registered iff the span endpoint is
\* non-empty, the metrics callback iff MetricsEnabled is true; and with no
\* callback registered a shutdown invokes nothing.
C2_OneCallbackPerEnabledPipeline ==
    pc \in Launched
        => /\ Len(shutdownFuncs) = (IF c.SpanExporterEndpoint # "" THEN 1 ELSE 0)
                                   + (IF c.MetricsEnabled THEN 1 ELSE 0)
           /\ Registered("trace") <=> c.SpanExporterEndpoint # ""
           /\ Registered("metrics") <=> c.MetricsEnabled
           /\ (c.SpanExporterEndpoint = "" /\ ~c.MetricsEnabled)
                  => /\ shutdownFuncs = <<>>
                     /\ sd.invoked = <<>>
                     /\ \A f \in Callbacks : sd.calls[f] = 0

C2_Witness ==
    /\ pc = "running"
    /\ c.SpanExporterEndpoint = ""
    /\ c.MetricsEnabled
    /\ c.MetricExporterEndpoint # ""
    /\ shutdownFuncs = <<"metrics">>

\* C3 as stated: once a shutdown call has returned, no callback is invoked
\* again, so none is ever invoked twice.
C3_SecondShutdownInvokesNothing ==
    sd.returned >= 1 => \A f \in Callbacks : sd.calls[f] <= 1

\* C3 as amended: a shutdown call leaves the callback list as it is, so every
\* shutdown call that returns has invoked every registered callback once more:
\* between calls each registered callback has been invoked once per returned
\* call, and a call invokes nothing only when no pipeline was registered.
C3_EveryShutdownInvokesEveryCallback ==
    pc = "running"
        => /\ c.SpanExporterEndpoint # "" => sd.calls["trace"] = sd.returned
           /\ c.MetricsEnabled => sd.calls["metrics"] = sd.returned
           /\ c.SpanExporterEndpoint = "" => sd.calls["trace"] = 0
           /\ ~c.MetricsEnabled => sd.calls["metrics"] = 0

C3_Witness ==
    /\ pc = "running"
    /\ sd.returned = 2
    /\ sd.calls["trace"] = 2

NoCallerServiceName ==
    /\ c.ServiceName = ""
    /\ c.resourceAttributes[AttributeServiceName] \in {Absent, ""}

HaltedAtValidation ==
    /\ pc = "fatal.config"
    /\ otelGlobal = NoGlobals
    /\ shutdownFuncs = <<>>
    /\ tp = IdleSetup

\* C4 as stated: with an empty ServiceName and no non-empty service name among
\* the caller's resource attributes, validation fails and ConfigureOpentelemetry
\* halts before it installs the error handler or sets up a pipeline.
C4_NoCallerServiceNameIsFatal ==
    (pc \notin BeforeValidation /\ NoCallerServiceName) => HaltedAtValidation

\* C4 as amended: with an empty ServiceName and no non-empty service name in
\* the built Resource, which holds the caller's resource attributes and those
\* of the environment (OTEL_RESOURCE_ATTRIBUTES), validation fails and
\* ConfigureOpentelemetry halts before it installs the error handler or sets
\* up a pipeline.
C4_NoServiceNameInResourceIsFatal ==
    ( /\ pc \notin BeforeValidation
      /\ NoCallerServiceName
      /\ c.Resource.attrs[AttributeServiceName] \in {Absent, ""} )
        => HaltedAtValidation

C4_Witness ==
    /\ pc = "fatal.config"
    /\ NoCallerServiceName
    /\ c.Resource.attrs[AttributeServiceName] = ""

\* C5: when the caller's resource attributes hold a non-empty host name X, the
\* attribute list newResource builds holds exactly one host-name entry, with
\* the value X: no detected host name is appended.
C5_CallerHostNameOnly ==
    (pc = "newConfig.return" /\ c.resourceAttributes[AttributeHostName] \notin {Absent, ""})
        => /\ CountKey(frame.attributes, AttributeHostName) = 1
           /\ \A i \in DOMAIN frame.attributes :
                 frame.attributes[i][1] = AttributeHostName
                     => frame.attributes[i][2] = c.resourceAttributes[AttributeHostName]

C5_Witness ==
    /\ pc = "newConfig.return"
    /\ c.resourceAttributes[AttributeHostName] = "X"
    /\ frame.env.OTEL_RESOURCE_ATTRIBUTES = <<>>
    /\ CountKey(frame.attributes, AttributeHostName) = 1

\* The requested keys the fixed table supports, in requested order.
SupportedKeys(keys) == SelectSeq(keys, LAMBDA k : k \in PropagatorKeys)

PropagatorsStep == CHOOSE i \in DOMAIN NewTracePipelineOrder :
                      NewTracePipelineOrder[i] = "configurePropagators"

\* configurePropagators has been called in this run.
PropagatorsConfigured ==
    /\ tp.spanExporter
    /\ \/ tp.step = 0
       \/ tp.step > PropagatorsStep
       \/ pc = "fatal.setup"

\* C6: once configurePropagators has run, either no requested key is in the
\* table {b3, baggage, tracecontext, ottrace}, and then it has failed (fatally
\* for the setup) and no process-wide propagator is installed; or the installed
\* propagator is composed of the codecs of the supported keys, in requested
\* order, the unknown keys being skipped without error.
C6_UnknownPropagatorsSkipped ==
    PropagatorsConfigured
        => LET keys == SupportedKeys(c.Propagators)
           IN  IF keys = <<>>
               THEN /\ pc = "fatal.setup"
                    /\ tp.err = "trace"
                    /\ otelGlobal.propagator = <<>>
               ELSE /\ otelGlobal.propagator = [i \in DOMAIN keys |-> propagatorsMap[keys[i]]]
                    /\ ~(pc = "fatal.setup" /\ tp.step = PropagatorsStep)

C6_Witness ==
    /\ c.Propagators = <<"b3", "unknown-key">>
    /\ otelGlobal.propagator = <<"b3.New(B3MultipleHeader)">>
    /\ pc = "setup"

\* C7: once a pipeline factory has returned an error, ConfigureOpentelemetry
\* has halted fatally at that factory: no Launcher is returned, no shutdown
\* callback is registered after the error, and after an error of the trace
\* factory the metrics factory is not run.
C7_SetupErrorHalts ==
    tp.err # "none"
        => /\ pc = "fatal.setup"
           /\ sd = IdleShutdown
           /\ ~Registered("metrics")
           /\ tp.err = "trace" => (shutdownFuncs = <<>> /\ otelGlobal.meterProvider = "noop")
           /\ tp.err = "metrics" => tp.i = 2

C7_Witness ==
    /\ pc = "fatal.setup"
    /\ tp.err = "trace"
    /\ c.MetricsEnabled
    /\ otelGlobal.meterProvider = "noop"

\* C8: once a shutdown callback has returned an error, the process has halted
\* fatally at that callback: it is the last one invoked, the callbacks after it
\* are not invoked and the shutdown call has not returned.
C8_ShutdownErrorHalts ==
    sd.failed # "none"
        => /\ pc = "fatal.shutdown"
           /\ sd.invoked # <<>>
           /\ sd.invoked[Len(sd.invoked)] = sd.failed
           /\ sd.returned < sd.started

C8_Witness ==
    /\ pc = "fatal.shutdown"
    /\ sd.failed = "trace"
    /\ shutdownFuncs = <<"trace", "metrics">>
    /\ sd.invoked = <<"trace">>
    /\ sd.calls["metrics"] = 0

\* The last option of the list with the given constructor, 0 when there is none.
LastOption(opts, name) ==
    LET S == {i \in DOMAIN opts : opts[i].name = name}
    IN  IF S = {} THEN 0 ELSE CHOOSE i \in S : \A j \in S : j <= i

\* The last option that sets the header k, 0 when there is none.
LastHeader(opts, k) ==
    LET S == {i \in DOMAIN opts : opts[i].name = "WithHeaders" /\ opts[i].hdr[k] # Absent}
    IN  IF S = {} THEN 0 ELSE CHOOSE i \in S : \A j \in S : j <= i

\* The value of a field: the argument of the last option that sets it, and
\* the value of the environment and the defaults when no option does.
FinalValue(opts, name, arg, base) ==
    IF LastOption(opts, name) = 0 THEN base ELSE opts[LastOption(opts, name)][arg]

\* The text Go prints for a period of d seconds, for the periods of the model.
PeriodText(d) == CASE d = 1 -> "1s" [] d = 5 -> "5s" [] d = 90 -> "1m30s"

\* C9: when newConfig returns, every field an option sets has the value of the
\* last option that sets it, whatever the environment and the defaults gave it,
\* and every other field has the value of the environment or its default; the
\* headers are merged key by key, each key having the value of the last option
\* that sets that key, or else the environment's.
C9_OptionsOverrideEnvironment ==
    pc = "newConfig.return"
        => LET base == StaticDefaults(EnvProcess(frame.env))
               opts == frame.opts
           IN  /\ c.MetricExporterEndpoint =
                     FinalValue(opts, "WithMetricExporterEndpoint", "s", base.MetricExporterEndpoint)
               /\ c.SpanExporterEndpoint =
                     FinalValue(opts, "WithSpanExporterEndpoint", "s", base.SpanExporterEndpoint)
               /\ c.ServiceName = FinalValue(opts, "WithServiceName", "s", base.ServiceName)
               /\ c.ServiceVersion = FinalValue(opts, "WithServiceVersion", "s", base.ServiceVersion)
               /\ c.LogLevel = FinalValue(opts, "WithLogLevel", "s", base.LogLevel)
               /\ c.SpanExporterEndpointInsecure =
                     FinalValue(opts, "WithSpanExporterInsecure", "b", base.SpanExporterEndpointInsecure)
               /\ c.MetricExporterEndpointInsecure =
                     FinalValue(opts, "WithMetricExporterInsecure", "b", base.MetricExporterEndpointInsecure)
               /\ c.resourceAttributes =
                     FinalValue(opts, "WithResourceAttributes", "attrs", base.resourceAttributes)
               /\ c.Propagators = FinalValue(opts, "WithPropagators", "l", base.Propagators)
               /\ c.errorHandler = FinalValue(opts, "WithErrorHandler", "s", base.errorHandler)
               /\ c.MetricsEnabled = FinalValue(opts, "WithMetricsEnabled", "b", base.MetricsEnabled)
               /\ c.BatchTimeout = FinalValue(opts, "WithBatchTimeout", "d", base.BatchTimeout)
               /\ c.context = FinalValue(opts, "WithContext", "s", base.context)
               /\ c.MetricReportingPeriod =
                     IF LastOption(opts, "WithMetricReportingPeriod") = 0
                     THEN base.MetricReportingPeriod
                     ELSE PeriodText(opts[LastOption(opts, "WithMetricReportingPeriod")].d)
               /\ \A k \in HeaderKeys :
                     c.Headers.m[k] = IF LastHeader(opts, k) = 0 THEN base.Headers.m[k]
                                      ELSE opts[LastHeader(opts, k)].hdr[k]

C9_Witness ==
    /\ pc = "newConfig.return"
    /\ frame.env.OTEL_METRICS_ENABLED = "false"
    /\ frame.env.OTEL_EXPORTER_OTLP_HEADERS = << <<"k1", "env">> >>
    /\ frame.opts = << HdrOpt("WithHeaders", << <<"k1", "b">>, <<"k2", "b">> >>),
                       HdrOpt("WithHeaders", << <<"k1", "a">> >>) >>
    /\ c.Headers.m = [k1 |-> "a", k2 |-> "b"]
    /\ ~c.MetricsEnabled

\* C10 as stated: NewTracePipeline installs the process-wide trace provider
\* before the process-wide propagator, so whenever a propagator is installed
\* the provider is.
C10_ProviderBeforePropagator ==
    otelGlobal.propagator # <<>> => otelGlobal.tracerProvider = "tp"

\* C10 as amended: NewTracePipeline constructs the exporter, then configures
\* and installs the process-wide propagator, then installs the process-wide
\* trace provider, then returns the shutdown callback: whenever the provider is
\* installed the exporter exists and a propagator is installed, and whenever
\* the trace callback is registered the provider is installed.
C10_PropagatorBeforeProvider ==
    /\ otelGlobal.tracerProvider = "tp"
           => (tp.spanExporter /\ otelGlobal.propagator # <<>>)
    /\ otelGlobal.propagator # <<>> => tp.spanExporter
    /\ Registered("trace") => otelGlobal.tracerProvider = "tp"

C10_Witness ==
    /\ pc = "NewTracePipeline"
    /\ otelGlobal.tracerProvider = "tp"
    /\ otelGlobal.propagator # <<>>
    /\ ~Registered("trace")

====
